---- MODULE Spec2Model ----
(***************************************************************************)
(* Activity-feed and engagement-counter core of sns-platform: the follow   *)
(* graph, the denormalized counters of users and posts, the reaction       *)
(* target check, the materialized activity feed and the feed readers, as   *)
(* the repositories and gorm models implement them over one relational     *)
(* store with soft deletion.                                               *)
(***************************************************************************)
EXTENDS Integers, Sequences, FiniteSets, TLC

\* ------------------------------------------------------------------ bounds
NUsers == 3          \* rows of the users table
MaxCount == 2        \* magnitude up to which a counter is driven
MaxPosts == 1        \* rows of the posts table
MaxComments == 3     \* rows of the comments table
MaxReactions == 2    \* rows of the reactions table
MaxFollows == 2      \* rows of the follows table
NCallers == 3        \* concurrent callers of the counter operations
MaxPage == 2         \* limit and offset of a feed request
MaxTime == 2         \* readings of the store's clock
NPosts == 2          \* posts the feed readers are run over
NReactions == 3      \* reactions the post detail is run over

\* ------------------------------------------------------------ program values
NULL == 0                                \* a nil *int64 / NULL column
NoErr == "nil"
ErrInvalidData == "ErrInvalidData"       \* gorm.ErrInvalidData
ErrDuplicatedKey == "ErrDuplicatedKey"   \* gorm.ErrDuplicatedKey (TranslateError)
ErrInvalidAction == "invalid action type"
ErrStoreUnavailable == "StoreUnavailable"
ErrRecordNotFound == "failed to fetch post: record not found"

Users == 1..NUsers
Callers == 1..NCallers
Idle == [ st |-> "idle", op |-> "", id |-> NULL, action |-> "" ]

\* types.Action, by its String() value
ActionUnknown == "unknown"
ActionFollowing == "following"
ActionUnfollowing == "unfollowing"
ActionFollowed == "followed"
ActionUnfollowed == "unfollowed"
ActionCreated == "created"
ActionDeleted == "deleted"
ActionLiked == "liked"
ActionUnliked == "unliked"
ActionCommented == "commented"
ActionUncommented == "uncommented"
ActionShared == "shared"
Actions ==
  { ActionUnknown, ActionFollowing, ActionUnfollowing, ActionFollowed,
    ActionUnfollowed, ActionCreated, ActionDeleted, ActionLiked, ActionUnliked,
    ActionCommented, ActionUncommented, ActionShared }

\* types.ReactionType, a uint32: the value the type column of reactions stores
ReactionTypeUnknown == 0
ReactionTypeLike == 1
ReactionTypeLove == 2
ReactionTypeHaha == 3
ReactionTypeWow == 4
ReactionTypeSad == 5
ReactionTypeAngry == 6
ReactionTypes ==
  { ReactionTypeLike, ReactionTypeLove, ReactionTypeHaha, ReactionTypeWow,
    ReactionTypeSad, ReactionTypeAngry }

\* StringToReactionType
StringToReactionType(s) ==
  CASE s = "like" -> ReactionTypeLike
    [] s = "love" -> ReactionTypeLove
    [] s = "haha" -> ReactionTypeHaha
    [] s = "wow" -> ReactionTypeWow
    [] s = "sad" -> ReactionTypeSad
    [] s = "angry" -> ReactionTypeAngry
    [] OTHER -> ReactionTypeUnknown

\* ReactionType.String()
ReactionTypeString(rt) ==
  CASE rt = ReactionTypeLike -> "like"
    [] rt = ReactionTypeLove -> "love"
    [] rt = ReactionTypeHaha -> "haha"
    [] rt = ReactionTypeWow -> "wow"
    [] rt = ReactionTypeSad -> "sad"
    [] rt = ReactionTypeAngry -> "angry"
    [] OTHER -> "unknown"

\* the text literals that are the numeral of an integer
Numeral == [ t \in { "0", "1", "2", "3", "4", "5", "6" } |->
               CASE t = "0" -> 0 [] t = "1" -> 1 [] t = "2" -> 2 [] t = "3" -> 3
                 [] t = "4" -> 4 [] t = "5" -> 5 [] t = "6" -> 6 ]

\* column = 'text' on an integer column: the stored integer is compared with
\* the number the literal denotes, and a literal that denotes none is equal
\* to no stored reaction type
IntegerEqualsText(n, text) == text \in DOMAIN Numeral /\ Numeral[text] = n

VARIABLES
  users,      \* users table: id -> row (deleted flag and the three counters)
  follows,    \* follows table: sequence of rows, index = id
  posts,      \* posts table: sequence of rows, index = id
  comments,   \* comments table: sequence of rows, index = id
  reactions,  \* reactions table: sequence of rows, index = id
  feeds,      \* activity_feeds table: sequence of rows, index = id
  fanout,     \* fan-out writer: post id -> progress of its publish
  now,        \* the store's clock
  calls,      \* per caller: its counter request, issued or executed
  asm,        \* the post-detail request in progress: its recursion stack
  last        \* the last operation, its arguments and its error

vars == << users, follows, posts, comments, reactions, feeds, fanout, now, calls,
           asm, last >>

Result(op, args, err) == [ op |-> op, args |-> args, err |-> err ]

GREATEST(a, b) == IF a >= b THEN a ELSE b

\* no GetPostWithDetails call in progress
NoRequest ==
  [ st |-> "idle", post |-> NULL, viewer |-> NULL, err |-> NoErr,
    has_user_liked |-> FALSE, reaction_summary |-> << >>, stack |-> << >>,
    fetched |-> << >>, comments |-> << >> ]

PostIds == 1..Len(posts)
CommentIds == 1..Len(comments)

\* --------------------------------------------------------------------- Init
UserRow == [ deleted |-> FALSE, follower_count |-> 0, following_count |-> 0,
             post_count |-> 0 ]

Init ==
  /\ users = [ u \in Users |-> UserRow ]
  /\ follows = << >>
  /\ posts = << >>
  /\ comments = << >>
  /\ reactions = << >>
  /\ feeds = << >>
  /\ fanout = << >>
  /\ now = 1
  /\ calls = [ c \in Callers |-> Idle ]
  /\ asm = NoRequest
  /\ last = Result("init", << >>, NoErr)

\* time.Now() of NowFunc moves on
Tick ==
  /\ now < MaxTime
  /\ now' = now + 1
  /\ UNCHANGED << asm, users, follows, posts, comments, reactions, feeds, fanout,
                  calls, last >>

\* the soft delete ... WHERE id = ? AND deleted_at IS NULL of userRepository.Delete
UserDeleteRows(tbl, id) ==
  [ u \in DOMAIN tbl |->
      IF u = id /\ ~tbl[u].deleted THEN [ tbl[u] EXCEPT !.deleted = TRUE ] ELSE tbl[u] ]

\* userRepository.Delete
UserDelete(id) ==
  /\ users' = UserDeleteRows(users, id)
  /\ last' = Result("UserDelete", << id >>, NoErr)
  /\ UNCHANGED << asm, follows, posts, comments, reactions, feeds, fanout, now,
                  calls >>

\* -------------------------------------------------------------- Graph Store
FollowIds == 1..Len(follows)

FollowBeforeCreate_NoCheck(followerID, followingID) == NoErr

\* Follow.BeforeCreate
FollowBeforeCreate(followerID, followingID) ==
  IF followerID = followingID THEN ErrInvalidData ELSE NoErr

FollowKeyTaken_Never(followerID, followingID) == FALSE

\* the unique index idx_follower_following spans (follower_id, following_id)
\* and not deleted_at: a soft-deleted row still occupies its key
FollowKeyTaken(followerID, followingID) ==
  \E i \in FollowIds :
    follows[i].follower_id = followerID /\ follows[i].following_id = followingID

\* the live rows of a pair: follower_id = ? AND following_id = ? AND deleted_at IS NULL
LiveFollowRows_AnyFollower(followerID, followingID) ==
  { i \in FollowIds : follows[i].following_id = followingID /\ ~follows[i].deleted }

\* the rows WHERE follower_id = ? AND following_id = ? AND deleted_at IS NULL
LiveFollowRows(followerID, followingID) ==
  { i \in FollowIds :
      /\ follows[i].follower_id = followerID
      /\ follows[i].following_id = followingID
      /\ ~follows[i].deleted }

LiveFollow(followerID, followingID) == LiveFollowRows(followerID, followingID) # {}

\* followers of x: the users with a live follows row onto x
Followers(x) == { u \in Users : LiveFollow(u, x) }

\* db.Create(follow): the hook, then the insert under the unique index
FollowErr(followerID, followingID) ==
  IF FollowBeforeCreate(followerID, followingID) # NoErr
    THEN FollowBeforeCreate(followerID, followingID)
    ELSE IF FollowKeyTaken(followerID, followingID) THEN ErrDuplicatedKey ELSE NoErr

FollowRow(followerID, followingID) ==
  [ follower_id |-> followerID, following_id |-> followingID, deleted |-> FALSE ]

\* followRepository.Follow
Follow(followerID, followingID) ==
  /\ FollowErr(followerID, followingID) = NoErr => Len(follows) < MaxFollows
  /\ follows' =
       IF FollowErr(followerID, followingID) = NoErr
         THEN Append(follows, FollowRow(followerID, followingID))
         ELSE follows
  /\ last' = Result("Follow", << followerID, followingID >>,
                    FollowErr(followerID, followingID))
  /\ UNCHANGED << asm, users, posts, comments, reactions, feeds, fanout, now, calls >>

\* followRepository.Unfollow: soft-deletes the live rows of the pair, and
\* returns no error when there is none
Unfollow(followerID, followingID) ==
  /\ follows' =
       [ i \in FollowIds |->
           IF i \in LiveFollowRows(followerID, followingID)
             THEN [ follows[i] EXCEPT !.deleted = TRUE ]
             ELSE follows[i] ]
  /\ last' = Result("Unfollow", << followerID, followingID >>, NoErr)
  /\ UNCHANGED << asm, users, posts, comments, reactions, feeds, fanout, now, calls >>

\* ----------------------------------------------------------- Counter Engine
Abs(n) == IF n < 0 THEN -n ELSE n

RECURSIVE SumOver(_, _)
SumOver(f, S) ==
  IF S = {} THEN 0
  ELSE LET x == CHOOSE y \in S : TRUE IN f[x] + SumOver(f, S \ {x})

\* userRepository.UpdateFollowCount: the switch on action
FollowCountActions ==
  { ActionFollowed, ActionUnfollowed, ActionFollowing, ActionUnfollowing }

FollowCountColumn(action) ==
  CASE action = ActionFollowed -> "follower_count"
    [] action = ActionUnfollowed -> "follower_count"
    [] action = ActionFollowing -> "following_count"
    [] action = ActionUnfollowing -> "following_count"
    [] OTHER -> ""

\* "follower_count + ?" / "follower_count - ?" with the argument 1
FollowCountExpr(action, value) ==
  CASE action = ActionFollowed -> value + 1
    [] action = ActionUnfollowed -> value - 1
    [] action = ActionFollowing -> value + 1
    [] action = ActionUnfollowing -> value - 1
    [] OTHER -> value

UpdateFollowCountErr(action) ==
  IF action \in FollowCountActions THEN NoErr ELSE ErrInvalidAction

UpdateFollowCountRows_AnyUser(tbl, username, action) ==
  IF UpdateFollowCountErr(action) # NoErr THEN tbl
  ELSE [ u \in DOMAIN tbl |->
           IF ~tbl[u].deleted
             THEN [ tbl[u] EXCEPT ![FollowCountColumn(action)] =
                                     FollowCountExpr(action, @) ]
             ELSE tbl[u] ]

\* the UPDATE ... WHERE username = ? AND deleted_at IS NULL of UpdateFollowCount
UpdateFollowCountRows(tbl, username, action) ==
  IF UpdateFollowCountErr(action) # NoErr THEN tbl
  ELSE [ u \in DOMAIN tbl |->
           IF u = username /\ ~tbl[u].deleted
             THEN [ tbl[u] EXCEPT ![FollowCountColumn(action)] =
                                     FollowCountExpr(action, @) ]
             ELSE tbl[u] ]

\* userRepository.UpdatePostCount: the switch on action
UserPostCountActions == { ActionCreated, ActionDeleted }

\* "post_count + ?" / "post_count - ?" with the argument 1
UserPostCountExpr(action, value) ==
  CASE action = ActionCreated -> value + 1
    [] action = ActionDeleted -> value - 1
    [] OTHER -> value

UserUpdatePostCountErr(action) ==
  IF action \in UserPostCountActions THEN NoErr ELSE ErrInvalidAction

\* the UPDATE ... WHERE id = ? AND deleted_at IS NULL of UpdatePostCount
UserUpdatePostCountRows(tbl, id, action) ==
  IF UserUpdatePostCountErr(action) # NoErr THEN tbl
  ELSE [ u \in DOMAIN tbl |->
           IF u = id /\ ~tbl[u].deleted
             THEN [ tbl[u] EXCEPT !.post_count = UserPostCountExpr(action, @) ]
             ELSE tbl[u] ]

\* postRepository.UpdatePostCount: the switch on action
PostCountActions ==
  { ActionLiked, ActionUnliked, ActionCommented, ActionUncommented, ActionShared }

PostCountColumn(action) ==
  CASE action = ActionLiked -> "like_count"
    [] action = ActionUnliked -> "like_count"
    [] action = ActionCommented -> "comment_count"
    [] action = ActionUncommented -> "comment_count"
    [] action = ActionShared -> "share_count"
    [] OTHER -> ""

PostCountExpr_NoFloor(action, value) ==
  CASE action \in { ActionLiked, ActionCommented, ActionShared } -> value + 1
    [] action \in { ActionUnliked, ActionUncommented } -> value - 1
    [] OTHER -> value

PostCountExpr_StaleRead(action, value) ==
  CASE action \in { ActionLiked, ActionCommented, ActionShared } -> 0 + 1
    [] action \in { ActionUnliked, ActionUncommented } -> GREATEST(value - 1, 0)
    [] OTHER -> value

\* column + " + 1" / "GREATEST(" + column + " - 1, 0)"
PostCountExpr(action, value) ==
  CASE action = ActionLiked -> value + 1
    [] action = ActionUnliked -> GREATEST(value - 1, 0)
    [] action = ActionCommented -> value + 1
    [] action = ActionUncommented -> GREATEST(value - 1, 0)
    [] action = ActionShared -> value + 1
    [] OTHER -> value

\* the default branch returns nil
UpdatePostCountErr(action) == NoErr

\* the UPDATE ... WHERE id = ? AND deleted_at IS NULL of UpdatePostCount
UpdatePostCountRows(tbl, id, action) ==
  IF action \notin PostCountActions THEN tbl
  ELSE [ p \in DOMAIN tbl |->
           IF p = id /\ ~tbl[p].deleted
             THEN [ tbl[p] EXCEPT ![PostCountColumn(action)] =
                                     PostCountExpr(action, @) ]
             ELSE tbl[p] ]

\* how far the counters of a whole table have been driven from zero
UserCounterTotal(tbl) ==
  SumOver([ u \in DOMAIN tbl |-> Abs(tbl[u].follower_count)
                                  + Abs(tbl[u].following_count)
                                  + Abs(tbl[u].post_count) ], DOMAIN tbl)

PostCounterTotal(tbl) ==
  SumOver([ p \in DOMAIN tbl |-> tbl[p].like_count + tbl[p].comment_count
                                  + tbl[p].share_count ], DOMAIN tbl)

\* userRepository.UpdateFollowCount
UpdateFollowCount(username, action) ==
  /\ users' = UpdateFollowCountRows(users, username, action)
  /\ UserCounterTotal(users') <= MaxCount
  /\ last' = Result("UpdateFollowCount", << username, action >>,
                    UpdateFollowCountErr(action))
  /\ UNCHANGED << asm, follows, posts, comments, reactions, feeds, fanout, now, calls >>

\* userRepository.UpdatePostCount
UserUpdatePostCount(id, action) ==
  /\ users' = UserUpdatePostCountRows(users, id, action)
  /\ UserCounterTotal(users') <= MaxCount
  /\ last' = Result("UserUpdatePostCount", << id, action >>,
                    UserUpdatePostCountErr(action))
  /\ UNCHANGED << asm, follows, posts, comments, reactions, feeds, fanout, now, calls >>

\* postRepository.UpdatePostCount
UpdatePostCount(id, action) ==
  /\ posts' = UpdatePostCountRows(posts, id, action)
  /\ PostCounterTotal(posts') <= MaxCount
  /\ last' = Result("UpdatePostCount", << id, action >>, UpdatePostCountErr(action))
  /\ UNCHANGED << asm, users, follows, comments, reactions, feeds, fanout, now, calls >>

\* -------------------------------------------------------------------- Posts
PostRow(userID, isPublic, createdAt) ==
  [ user_id |-> userID, is_public |-> isPublic, created_at |-> createdAt,
    deleted |-> FALSE, view_count |-> 0, share_count |-> 0, like_count |-> 0,
    comment_count |-> 0 ]

\* postRepository.Create: inserts the post row and nothing else
PostCreate(userID, isPublic) ==
  /\ Len(posts) < MaxPosts
  /\ posts' = Append(posts, PostRow(userID, isPublic, now))
  /\ last' = Result("PostCreate", << Len(posts) + 1, userID >>, NoErr)
  /\ UNCHANGED << asm, users, follows, comments, reactions, feeds, fanout, now, calls >>

\* the soft delete ... WHERE id = ? AND deleted_at IS NULL of postRepository.Delete
PostDeleteRows(tbl, id) ==
  [ p \in DOMAIN tbl |->
      IF p = id /\ ~tbl[p].deleted THEN [ tbl[p] EXCEPT !.deleted = TRUE ] ELSE tbl[p] ]

\* postRepository.Delete
PostDelete(id) ==
  /\ posts' = PostDeleteRows(posts, id)
  /\ last' = Result("PostDelete", << id >>, NoErr)
  /\ UNCHANGED << asm, users, follows, comments, reactions, feeds, fanout, now, calls >>

\* ----------------------------------------------------------------- Comments
CommentRow(postID, userID, parentID, createdAt) ==
  [ post_id |-> postID, user_id |-> userID, parent_id |-> parentID,
    created_at |-> createdAt, deleted |-> FALSE, likes_count |-> 0,
    replies_count |-> 0 ]

\* a Comment row created through gorm: the foreign keys of the model are all
\* that is checked
CommentCreate(postID, userID, parentID) ==
  /\ Len(comments) < MaxComments
  /\ postID \in PostIds
  /\ parentID = NULL \/ parentID \in CommentIds
  /\ comments' = Append(comments, CommentRow(postID, userID, parentID, now))
  /\ last' = Result("CommentCreate", << postID, userID, parentID >>, NoErr)
  /\ UNCHANGED << asm, users, follows, posts, reactions, feeds, fanout, now, calls >>

\* ------------------------------------------------------- Reaction Validator
ReactionBeforeCreate_OnlyNeither(postID, commentID) ==
  IF postID = NULL /\ commentID = NULL THEN ErrInvalidData ELSE NoErr

\* Reaction.BeforeCreate
ReactionBeforeCreate(postID, commentID) ==
  IF (postID = NULL /\ commentID = NULL) \/ (postID # NULL /\ commentID # NULL)
    THEN ErrInvalidData
    ELSE NoErr

ReactionRow(userID, postID, commentID, type) ==
  [ user_id |-> userID, post_id |-> postID, comment_id |-> commentID,
    type |-> type, deleted |-> FALSE ]

\* a Reaction row created through gorm: the BeforeCreate hook, then the insert
ReactionCreate(userID, postID, commentID, type) ==
  /\ postID = NULL \/ postID \in PostIds
  /\ commentID = NULL \/ commentID \in CommentIds
  /\ ReactionBeforeCreate(postID, commentID) = NoErr => Len(reactions) < MaxReactions
  /\ reactions' =
       IF ReactionBeforeCreate(postID, commentID) = NoErr
         THEN Append(reactions, ReactionRow(userID, postID, commentID, type))
         ELSE reactions
  /\ last' = Result("ReactionCreate", << userID, postID, commentID, type >>,
                    ReactionBeforeCreate(postID, commentID))
  /\ UNCHANGED << asm, users, follows, posts, comments, feeds, fanout, now, calls >>

\* ------------------------------------------------------------ Activity feed
FeedIds == 1..Len(feeds)

ActivityFeedRow(userID, postID) ==
  [ user_id |-> userID, post_id |-> postID, author_id |-> posts[postID].user_id,
    post_created |-> posts[postID].created_at, deleted |-> FALSE ]

\* ActivityFeed declares the indexes idx_user_created (user_id, post_created),
\* post_id and author_id, none of them unique: no key of a new row is ever taken
ActivityFeedKeyTaken(tbl, userID, postID) == FALSE

\* an ActivityFeed row created through gorm
ActivityFeedInsert(tbl, userID, postID) ==
  IF ActivityFeedKeyTaken(tbl, userID, postID)
    THEN tbl
    ELSE Append(tbl, ActivityFeedRow(userID, postID))

\* one insert per subscriber of S, in ascending order of user id
RECURSIVE ActivityFeedInsertAll(_, _, _)
ActivityFeedInsertAll(tbl, S, postID) ==
  IF S = {} THEN tbl
  ELSE LET u == CHOOSE x \in S : \A y \in S : x <= y
       IN ActivityFeedInsertAll(ActivityFeedInsert(tbl, u, postID), S \ {u}, postID)

\* the n subscribers of S that a fan-out in ascending order of user id reaches first
FirstOf(S, n) == { u \in S : Cardinality({ v \in S : v < u }) < n }

\* Feed Fan-out Writer, publish(post): enumerates the live followers F of the
\* author and inserts one entry per follower. The store may fail after the
\* first n entries have been written: the publish then reports
\* StoreUnavailable and the number of entries written.
Publish(postID, n) ==
  /\ postID \in PostIds
  /\ postID \notin DOMAIN fanout
  /\ n \in 0..Cardinality(Followers(posts[postID].user_id))
  /\ feeds' = ActivityFeedInsertAll(feeds,
                FirstOf(Followers(posts[postID].user_id), n), postID)
  /\ fanout' = fanout @@
       (postID :> [ F |-> Followers(posts[postID].user_id),
                    st |-> IF n = Cardinality(Followers(posts[postID].user_id))
                             THEN "done" ELSE "failed" ])
  /\ last' = Result("Publish", << postID, n >>,
                    IF n = Cardinality(Followers(posts[postID].user_id))
                      THEN NoErr ELSE ErrStoreUnavailable)
  /\ UNCHANGED << asm, users, follows, posts, comments, reactions, now, calls >>

\* Feed Fan-out Writer, the caller's retry of a publish that failed: one insert
\* per follower of the set enumerated at publish, a duplicate entry being left
\* to the store to reject
PublishRetry(postID) ==
  /\ postID \in DOMAIN fanout
  /\ fanout[postID].st = "failed"
  /\ feeds' = ActivityFeedInsertAll(feeds, fanout[postID].F, postID)
  /\ fanout' = [ fanout EXCEPT ![postID].st = "done" ]
  /\ last' = Result("PublishRetry", << postID >>, NoErr)
  /\ UNCHANGED << asm, users, follows, posts, comments, reactions, now, calls >>

\* -------------------------------------------------------------- Feed Reader
Min(a, b) == IF a <= b THEN a ELSE b

\* the rows the LEFT JOIN reactions user_likes matches: the viewer's live
\* reactions on the post whose type column satisfies type = 'like'
UserLikes(userID, postID) ==
  { r \in 1..Len(reactions) :
      /\ reactions[r].post_id = postID
      /\ reactions[r].user_id = userID
      /\ IntegerEqualsText(reactions[r].type, "like")
      /\ ~reactions[r].deleted }

\* a LEFT JOIN keeps a row with no match once, with NULL in the joined columns
LeftJoin(matches) == IF matches = {} THEN { NULL } ELSE matches

HomeJoin_KeepDeleted(userID) ==
  UNION { { [ feed |-> i, post |-> feeds[i].post_id, like |-> r ] :
              r \in LeftJoin(UserLikes(userID, feeds[i].post_id)) } :
          i \in { j \in FeedIds :
                    /\ feeds[j].user_id = userID
                    /\ ~feeds[j].deleted
                    /\ ~users[posts[feeds[j].post_id].user_id].deleted } }

\* GetUserFeed, the FROM / JOIN / WHERE part: activity_feeds of the viewer,
\* INNER JOIN the live post, INNER JOIN its live author, LEFT JOIN the
\* viewer's likes of the post
HomeJoin(userID) ==
  UNION { { [ feed |-> i, post |-> feeds[i].post_id, like |-> r ] :
              r \in LeftJoin(UserLikes(userID, feeds[i].post_id)) } :
          i \in { j \in FeedIds :
                    /\ feeds[j].user_id = userID
                    /\ ~feeds[j].deleted
                    /\ ~posts[feeds[j].post_id].deleted
                    /\ ~users[posts[feeds[j].post_id].user_id].deleted } }

\* ORDER BY key DESC: every order of the rows with the keys non-increasing
\* (rows of equal key come in any order)
RECURSIVE OrderedDesc(_, _)
OrderedDesc(rows, key) ==
  IF rows = {} THEN { << >> }
  ELSE UNION { { << x >> \o t : t \in OrderedDesc(rows \ {x}, key) } :
               x \in { y \in rows : \A z \in rows : key[y] >= key[z] } }

Page_FromStart(rows, limit, offset) == SubSeq(rows, 1, Min(limit, Len(rows)))

\* LIMIT limit OFFSET offset
Page(rows, limit, offset) == SubSeq(rows, offset + 1, Min(offset + limit, Len(rows)))

FeedItem(row) == [ post |-> row.post, has_user_liked |-> row.like # NULL ]

\* feedRepository.GetUserFeed: the results the store may return
GetUserFeed(userID, limit, offset) ==
  { [ k \in 1..Len(Page(s, limit, offset)) |-> FeedItem(Page(s, limit, offset)[k]) ] :
      s \in OrderedDesc(HomeJoin(userID),
                        [ r \in HomeJoin(userID) |-> feeds[r.feed].post_created ]) }

\* GetExploreFeed, cutoffTime := time.Now().Add(-timeRange)
CutoffTime(timeRange) == now - timeRange

ExploreWhere_AnyVisibility(p, cutoffTime) ==
  /\ posts[p].created_at >= cutoffTime
  /\ ~posts[p].deleted

\* GetExploreFeed, the WHERE clause
ExploreWhere(p, cutoffTime) ==
  /\ posts[p].is_public = TRUE
  /\ posts[p].created_at >= cutoffTime
  /\ ~posts[p].deleted

\* GetExploreFeed, the FROM / JOIN / WHERE part: posts INNER JOIN the live
\* author, LEFT JOIN the viewer's likes of the post
ExploreJoin(userID, timeRange) ==
  UNION { { [ post |-> p, like |-> r ] : r \in LeftJoin(UserLikes(userID, p)) } :
          p \in { q \in PostIds :
                    /\ ~users[posts[q].user_id].deleted
                    /\ ExploreWhere(q, CutoffTime(timeRange)) } }

\* GetExploreFeed, the engagement_score expression of the SELECT list
EngagementScore(likeCount, commentCount, shareCount) ==
  likeCount * 3 + commentCount * 5 + shareCount * 2

\* GetExploreFeed: the tables the query joins, and those its SELECT list reads
ExploreTables == { "posts", "users", "user_likes" }
ExploreSelected == { "posts", "users", "user_likes", "like_counts", "comment_counts" }
ErrQuery == "failed to fetch explore feed"

\* a column of a table the query does not join fails the statement
ExploreErr == IF ExploreSelected \subseteq ExploreTables THEN NoErr ELSE ErrQuery

\* feedRepository.GetExploreFeed: nil and the error when the statement fails
GetExploreFeed(userID, limit, offset, timeRange) ==
  [ err |-> ExploreErr, items |-> << >> ]

\* --------------------------------------------------- Post detail and threads
\* the Record Store's update by id of a comment's parent_id: the foreign key
\* on comments(id) is all that is checked
CommentUpdateParent(id, parentID) ==
  /\ id \in CommentIds
  /\ parentID = NULL \/ parentID \in CommentIds
  /\ comments' = [ comments EXCEPT ![id].parent_id = parentID ]
  /\ last' = Result("CommentUpdateParent", << id, parentID >>, NoErr)
  /\ UNCHANGED << asm, users, follows, posts, reactions, feeds, fanout, now, calls >>

\* the Record Store's delete by id of a comment: a soft delete
CommentDelete(id) ==
  /\ id \in CommentIds
  /\ comments' = [ comments EXCEPT ![id].deleted = TRUE ]
  /\ last' = Result("CommentDelete", << id >>, NoErr)
  /\ UNCHANGED << asm, users, follows, posts, reactions, feeds, fanout, now, calls >>

\* the rows the LEFT JOIN reactions user_likes of getCommentsWithReplies
\* matches: the viewer's live reactions on the comment with type = 'like'
CommentLikes(userID, commentID) ==
  { r \in 1..Len(reactions) :
      /\ reactions[r].comment_id = commentID
      /\ reactions[r].user_id = userID
      /\ IntegerEqualsText(reactions[r].type, "like")
      /\ ~reactions[r].deleted }

ChildRows_AllAtTop(postID, userID, parentID) ==
  UNION { { [ comment |-> c, like |-> r ] : r \in LeftJoin(CommentLikes(userID, c)) } :
          c \in { d \in CommentIds :
                    /\ ~users[comments[d].user_id].deleted
                    /\ comments[d].post_id = postID
                    /\ ~comments[d].deleted
                    /\ parentID = NULL \/ comments[d].parent_id = parentID } }

ChildRows_AnyPost(postID, userID, parentID) ==
  UNION { { [ comment |-> c, like |-> r ] : r \in LeftJoin(CommentLikes(userID, c)) } :
          c \in { d \in CommentIds :
                    /\ ~users[comments[d].user_id].deleted
                    /\ parentID # NULL \/ comments[d].post_id = postID
                    /\ ~comments[d].deleted
                    /\ comments[d].parent_id = parentID } }

ChildRows_KeepDeleted(postID, userID, parentID) ==
  UNION { { [ comment |-> c, like |-> r ] : r \in LeftJoin(CommentLikes(userID, c)) } :
          c \in { d \in CommentIds :
                    /\ ~users[comments[d].user_id].deleted
                    /\ comments[d].post_id = postID
                    /\ comments[d].parent_id = parentID } }

\* getCommentsWithReplies, its query: comments INNER JOIN the live author,
\* LEFT JOIN the viewer's likes, WHERE post_id = postID, live, and parent_id
\* IS NULL (parentID nil) or parent_id = parentID
ChildRows(postID, userID, parentID) ==
  UNION { { [ comment |-> c, like |-> r ] : r \in LeftJoin(CommentLikes(userID, c)) } :
          c \in { d \in CommentIds :
                    /\ ~users[comments[d].user_id].deleted
                    /\ comments[d].post_id = postID
                    /\ ~comments[d].deleted
                    /\ comments[d].parent_id = parentID } }

\* ORDER BY key ASC: every order of the rows with the keys non-decreasing
RECURSIVE OrderedAsc(_, _)
OrderedAsc(rows, key) ==
  IF rows = {} THEN { << >> }
  ELSE UNION { { << x >> \o t : t \in OrderedAsc(rows \ {x}, key) } :
               x \in { y \in rows : \A z \in rows : key[y] <= key[z] } }

\* the results the query of getCommentsWithReplies may return
FetchComments(postID, userID, parentID) ==
  OrderedAsc(ChildRows(postID, userID, parentID),
             [ r \in ChildRows(postID, userID, parentID) |->
                 comments[r.comment].created_at ])

CommentNode_NoReplies(row, replies) ==
  [ id |-> row.comment, has_user_liked |-> row.like # NULL, replies |-> << >> ]

\* dto.CommentWithReplies
CommentNode(row, replies) ==
  [ id |-> row.comment, has_user_liked |-> row.like # NULL, replies |-> replies ]

\* one activation of getCommentsWithReplies: the scanned comments, the index
\* of its loop, and the nodes whose Replies are already set
Frame(rows) == [ rows |-> rows, i |-> 1, out |-> << >> ]

\* GetPostWithDetails, its first query: the live post of a live author
PostFound(postID) ==
  /\ postID \in PostIds
  /\ ~posts[postID].deleted
  /\ ~users[posts[postID].user_id].deleted

\* GetPostWithDetails, the reaction summary: the live reactions on the post
\* grouped by type, stored in a map under Type.String()
TypeGroups(postID) ==
  { reactions[r].type :
      r \in { q \in 1..Len(reactions) :
                reactions[q].post_id = postID /\ ~reactions[q].deleted } }

GroupCount_AnyTarget(postID, type) ==
  Cardinality({ r \in 1..Len(reactions) :
                  ~reactions[r].deleted /\ reactions[r].type = type })

GroupCount(postID, type) ==
  Cardinality({ r \in 1..Len(reactions) :
                  /\ reactions[r].post_id = postID
                  /\ ~reactions[r].deleted
                  /\ reactions[r].type = type })

ReactionSummaries(postID) ==
  { f \in [ { ReactionTypeString(t) : t \in TypeGroups(postID) } -> 0..Len(reactions) ] :
      \A str \in DOMAIN f :
        \E t \in TypeGroups(postID) :
          ReactionTypeString(t) = str /\ f[str] = GroupCount(postID, t) }

\* feedRepository.GetPostWithDetails up to its call of getCommentsWithReplies
\* with a nil parent, whose query is the first fetch of the recursion
GetPostWithDetails(postID, userID) ==
  /\ asm.st = "idle"
  /\ IF PostFound(postID)
       THEN \E rows \in FetchComments(postID, userID, NULL),
               summary \in ReactionSummaries(postID) :
              asm' = [ st |-> "running", post |-> postID, viewer |-> userID,
                       err |-> NoErr,
                       has_user_liked |-> UserLikes(userID, postID) # {},
                       reaction_summary |-> summary,
                       stack |-> << Frame(rows) >>,
                       fetched |-> << NULL >>,
                       comments |-> << >> ]
       ELSE asm' = [ NoRequest EXCEPT !.st = "done", !.post = postID,
                                      !.viewer = userID, !.err = ErrRecordNotFound ]
  /\ last' = Result("GetPostWithDetails", << postID, userID >>,
                    IF PostFound(postID) THEN NoErr ELSE ErrRecordNotFound)
  /\ UNCHANGED << users, follows, posts, comments, reactions, feeds, fanout, now,
                  calls >>

getCommentsWithReplies_Spin == asm.st = "running" /\ UNCHANGED vars

\* getCommentsWithReplies, one step of the innermost activation: its loop
\* calls itself for comments[i] (the callee's query is run), or the loop is
\* over and it returns its comments, which the caller stores in
\* comments[i].Replies
getCommentsWithReplies ==
  /\ asm.st = "running"
  /\ LET d == Len(asm.stack)
         f == asm.stack[d]
     IN IF f.i <= Len(f.rows)
          THEN \E rows \in FetchComments(asm.post, asm.viewer, f.rows[f.i].comment) :
                 asm' = [ asm EXCEPT !.stack = Append(@, Frame(rows)),
                                     !.fetched = Append(@, f.rows[f.i].comment) ]
          ELSE IF d = 1
            THEN asm' = [ asm EXCEPT !.st = "done", !.stack = << >>,
                                     !.comments = f.out ]
            ELSE asm' =
                   [ asm EXCEPT !.stack =
                       Append(SubSeq(@, 1, d - 2),
                              [ @[d - 1] EXCEPT
                                  !.out = Append(@, CommentNode(asm.stack[d - 1].rows[asm.stack[d - 1].i], f.out)),
                                  !.i = @ + 1 ]) ]
  /\ UNCHANGED << users, follows, posts, comments, reactions, feeds, fanout, now,
                  calls, last >>

\* the caller has taken the detail (or the error)
Return ==
  /\ asm.st = "done"
  /\ asm' = NoRequest
  /\ UNCHANGED << users, follows, posts, comments, reactions, feeds, fanout, now,
                  calls, last >>

\* --------------------------------------------------------------------- Seed
\* Seed: nothing when the users table has a row; otherwise alice, bob and
\* charlie (users 1, 2, 3), four follows, a public post of each, two comments
\* on the first post and three reactions, each batch by one db.Create
Seed ==
  /\ IF DOMAIN users # {}
       THEN UNCHANGED << users, follows, posts, comments, reactions >>
       ELSE /\ users' = << UserRow, UserRow, UserRow >>
            /\ follows' = << FollowRow(1, 2), FollowRow(1, 3), FollowRow(2, 1),
                             FollowRow(3, 1) >>
            /\ posts' = << PostRow(1, TRUE, now), PostRow(2, TRUE, now),
                           PostRow(3, TRUE, now) >>
            /\ comments' = << CommentRow(1, 2, NULL, now), CommentRow(1, 3, NULL, now) >>
            /\ reactions' = << ReactionRow(2, 1, NULL, ReactionTypeLike),
                               ReactionRow(3, 1, NULL, ReactionTypeLove),
                               ReactionRow(1, 2, NULL, ReactionTypeLike) >>
  /\ last' = Result("Seed", << >>, NoErr)
  /\ UNCHANGED << asm, feeds, fanout, now, calls >>

\* --------------------------------------------------------- concurrent callers
\* a caller enters UpdatePostCount / UpdateFollowCount: the switch has chosen
\* the column and the expression, the statement is not yet sent
Issue(c, op, id, action) ==
  /\ calls[c].st = "idle"
  /\ op = "UpdatePostCount" => id \in PostIds /\ action \in PostCountActions
  /\ op = "UpdateFollowCount" => id \in Users /\ action \in FollowCountActions
  /\ calls' = [ calls EXCEPT ![c] = [ st |-> "issued", op |-> op, id |-> id,
                                      action |-> action ] ]
  /\ UNCHANGED << asm, users, follows, posts, comments, reactions, feeds, fanout, now,
                  last >>

\* the store executes the caller's single UPDATE statement
Execute(c) ==
  /\ calls[c].st = "issued"
  /\ calls' = [ calls EXCEPT ![c].st = "done" ]
  /\ posts' = IF calls[c].op = "UpdatePostCount"
                THEN UpdatePostCountRows(posts, calls[c].id, calls[c].action)
                ELSE posts
  /\ users' = IF calls[c].op = "UpdateFollowCount"
                THEN UpdateFollowCountRows(users, calls[c].id, calls[c].action)
                ELSE users
  /\ last' = Result(calls[c].op, << calls[c].id, calls[c].action >>, NoErr)
  /\ UNCHANGED << asm, follows, comments, reactions, feeds, fanout, now >>

\* ------------------------------------------------------------ specifications
\* the follow graph
NextGraph ==
  \/ \E a \in Users, b \in {1, 2} : Follow(a, b)
  \/ \E a \in Users, b \in {1, 2} : Unfollow(a, b)

SpecGraph == Init /\ [][NextGraph]_vars

\* the counters of users
NextUserCounter ==
  \/ \E u \in Users, a \in Actions : UpdateFollowCount(u, a)
  \/ \E u \in Users, a \in Actions : UserUpdatePostCount(u, a)

SpecUserCounter == Init /\ [][NextUserCounter]_vars

\* the counters of posts
NextPostCounter ==
  \/ \E pub \in BOOLEAN : PostCreate(1, pub)
  \/ \E p \in PostIds, a \in Actions : UpdatePostCount(p, a)

SpecPostCounter == Init /\ [][NextPostCounter]_vars

\* reactions of two users on posts and comments
NextReaction ==
  \/ PostCreate(1, TRUE)
  \/ \E p \in PostIds : CommentIds = {} /\ CommentCreate(p, 1, NULL)
  \/ \E u \in {2, 3}, p \in {NULL} \cup PostIds, c \in {NULL} \cup CommentIds,
        t \in {ReactionTypeLike, ReactionTypeLove} :
       ReactionCreate(u, p, c, t)

SpecReaction == Init /\ [][NextReaction]_vars

\* callers adjusting the counters of one post and of one user concurrently
NextConc ==
  \/ PostCreate(1, TRUE)
  \/ \E c \in Callers, a \in PostCountActions : Issue(c, "UpdatePostCount", 1, a)
  \/ \E c \in Callers, a \in FollowCountActions : Issue(c, "UpdateFollowCount", 1, a)
  \/ \E c \in Callers : Execute(c)

SpecConc == Init /\ [][NextConc]_vars

\* the follow graph, posts and the materialized feed
NextFeed ==
  \/ \E a \in Users \ {1} : Follow(a, 1)
  \/ \E a \in Followers(1) : Unfollow(a, 1)
  \/ PostIds = {} /\ PostCreate(1, TRUE)
  \/ \E p \in PostIds, n \in 0..NUsers : Publish(p, n)
  \/ \E p \in PostIds : PublishRetry(p)
  \/ \E p \in PostIds : PostDelete(p)

SpecFeed == Init /\ [][NextFeed]_vars

\* the explore feed over posts created earlier by user 1, public or private,
\* at any readings of the clock; user 3 is the viewer
DrawnPosts ==
  { s \in [ 1..NPosts ->
              { PostRow(1, pub, t) : pub \in BOOLEAN, t \in 1..MaxTime } ] :
      \A i \in 1..NPosts, j \in 1..NPosts :
        i <= j => s[i].created_at <= s[j].created_at }

InitExplore ==
  /\ users = [ u \in Users |-> UserRow ]
  /\ follows = << >>
  /\ posts \in DrawnPosts
  /\ comments = << >>
  /\ reactions = << >>
  /\ feeds = << >>
  /\ fanout = << >>
  /\ now = MaxTime
  /\ calls = [ c \in Callers |-> Idle ]
  /\ asm = NoRequest
  /\ last = Result("init", << >>, NoErr)

NextExplore ==
  \/ \E p \in PostIds : PostDelete(p)
  \/ UpdatePostCount(1, ActionShared)
  \/ UserDelete(1)
  \/ Follow(3, 1)
  \/ Publish(1, Cardinality(Followers(1)))

SpecExplore == InitExplore /\ [][NextExplore]_vars

\* the home timeline of user 2 over posts of user 1 created earlier
InitHome ==
  /\ users = [ u \in Users |-> UserRow ]
  /\ follows = << >>
  /\ posts \in { s \in DrawnPosts : \A p \in 1..NPosts : s[p].is_public }
  /\ comments = << >>
  /\ reactions = << >>
  /\ feeds = << >>
  /\ fanout = << >>
  /\ now = MaxTime
  /\ calls = [ c \in Callers |-> Idle ]
  /\ asm = NoRequest
  /\ last = Result("init", << >>, NoErr)

NextHome ==
  \/ Follow(2, 1)
  \/ \E p \in PostIds : Publish(p, Cardinality(Followers(1)))
  \/ \E p \in PostIds : PostDelete(p)
  \/ UserDelete(1)

SpecHome == InitHome /\ [][NextHome]_vars

\* post detail requests of viewer 3 over the comments of user 2 on two posts
\* of user 1; between requests comments are created under any parent and the
\* first comment is re-parented, onto itself or one of its descendants too
InitThread ==
  /\ users = [ u \in Users |-> UserRow ]
  /\ follows = << >>
  /\ posts = << PostRow(1, TRUE, 1), PostRow(1, TRUE, 1) >>
  /\ comments = << >>
  /\ reactions = << >>
  /\ feeds = << >>
  /\ fanout = << >>
  /\ now = 1
  /\ calls = [ c \in Callers |-> Idle ]
  /\ asm = NoRequest
  /\ last = Result("init", << >>, NoErr)

NextThread ==
  \/ /\ asm.st = "idle"
     /\ comments # << >>
     /\ comments[Len(comments)].created_at = now
     /\ Tick
  \/ \E p \in PostIds, parent \in {NULL} \cup CommentIds :
       asm.st = "idle" /\ CommentCreate(p, 2, parent)
  \/ \E parent \in {NULL} \cup CommentIds :
       asm.st = "idle" /\ CommentUpdateParent(1, parent)
  \/ \E p \in PostIds : GetPostWithDetails(p, 3)
  \/ getCommentsWithReplies
  \/ Return

SpecThread == InitThread /\ [][NextThread]_vars

\* the same requests, the recursion in progress being run to its end
SpecThreadLive == SpecThread /\ WF_vars(getCommentsWithReplies)

\* the same requests, the author of the comments being soft-deleted meanwhile
NextThreadAuthor ==
  \/ NextThread
  \/ asm.st = "idle" /\ UserDelete(2)

SpecThreadAuthor == InitThread /\ [][NextThreadAuthor]_vars

\* viewer 3 follows user 1, whose post is published and commented on by user
\* 2; users 2 and 3 react to the post and to the comment between the requests
NextLike ==
  \/ PostIds = {} /\ PostCreate(1, TRUE)
  \/ Follow(3, 1)
  \/ \E p \in PostIds : Publish(p, Cardinality(Followers(1)))
  \/ \E p \in PostIds : CommentIds = {} /\ CommentCreate(p, 2, NULL)
  \/ \E u \in {2, 3}, p \in PostIds, t \in { ReactionTypeLike, ReactionTypeLove } :
       asm.st = "idle" /\ ReactionCreate(u, p, NULL, t)
  \/ \E u \in {2, 3}, c \in CommentIds, t \in { ReactionTypeLike, ReactionTypeLove } :
       asm.st = "idle" /\ ReactionCreate(u, NULL, c, t)
  \/ \E p \in PostIds : GetPostWithDetails(p, 3)
  \/ getCommentsWithReplies
  \/ Return

SpecLike == Init /\ [][NextLike]_vars

\* the store after Migrate, before any user exists; then the seeding, and
\* follows, unfollows and post deletions of the seeded users
InitEmpty ==
  /\ users = << >>
  /\ follows = << >>
  /\ posts = << >>
  /\ comments = << >>
  /\ reactions = << >>
  /\ feeds = << >>
  /\ fanout = << >>
  /\ now = 1
  /\ calls = [ c \in Callers |-> Idle ]
  /\ asm = NoRequest
  /\ last = Result("init", << >>, NoErr)

NextSeed ==
  \/ Seed
  \/ \E a \in DOMAIN users, b \in DOMAIN users : Follow(a, b)
  \/ \E a \in DOMAIN users, b \in DOMAIN users : Unfollow(a, b)
  \/ \E p \in PostIds : PostDelete(p)

SpecSeed == InitEmpty /\ [][NextSeed]_vars

\* callers adjusting counters of two posts and of two users concurrently, and
\* the post_count of the two users adjusted meanwhile
NextIndep ==
  \/ \E c \in Callers, a \in { ActionLiked, ActionUnliked, ActionCommented } :
       Issue(c, "UpdatePostCount", 1, a)
  \/ \E c \in Callers : Issue(c, "UpdatePostCount", 2, ActionLiked)
  \/ \E c \in Callers, u \in {1, 2} : Issue(c, "UpdateFollowCount", u, ActionFollowed)
  \/ \E c \in Callers : Execute(c)
  \/ \E u \in {1, 2} : UserUpdatePostCount(u, ActionCreated)

SpecIndep == InitThread /\ [][NextIndep]_vars

\* comments of users 2 and 3 created on two posts of user 1, under any parent
NextComment ==
  \/ Tick
  \/ \E p \in PostIds, u \in {2, 3}, parent \in {NULL} \cup CommentIds :
       CommentCreate(p, u, parent)

SpecComment == InitThread /\ [][NextComment]_vars

\* the counter operations called with any action on users and a post that
\* exist, that are soft-deleted meanwhile, or that never existed
NextCounterCalls ==
  \/ PostCreate(1, TRUE)
  \/ \E p \in PostIds : PostDelete(p)
  \/ UserDelete(1)
  \/ \E u \in {1, NUsers + 1}, a \in Actions : UpdateFollowCount(u, a)
  \/ \E u \in {1, NUsers + 1}, a \in Actions : UserUpdatePostCount(u, a)
  \/ \E p \in 1..(MaxPosts + 1), a \in Actions : UpdatePostCount(p, a)

SpecCounterCalls == Init /\ [][NextCounterCalls]_vars

\* post detail requests of viewer 3 over reactions of user 2 stored earlier,
\* live or soft-deleted, on the two posts of user 1 and on a comment
DrawnReactions ==
  [ 1..NReactions ->
      { [ ReactionRow(2, t[1], t[2], type) EXCEPT !.deleted = del ] :
          t \in { << 1, NULL >>, << 2, NULL >>, << NULL, 1 >> },
          type \in { ReactionTypeLike, ReactionTypeLove },
          del \in BOOLEAN } ]

InitHistogram ==
  /\ users = [ u \in Users |-> UserRow ]
  /\ follows = << >>
  /\ posts = << PostRow(1, TRUE, 1), PostRow(1, TRUE, 1) >>
  /\ comments = << CommentRow(1, 2, NULL, 1) >>
  /\ reactions \in DrawnReactions
  /\ feeds = << >>
  /\ fanout = << >>
  /\ now = 1
  /\ calls = [ c \in Callers |-> Idle ]
  /\ asm = NoRequest
  /\ last = Result("init", << >>, NoErr)

NextHistogram ==
  \/ \E p \in PostIds : GetPostWithDetails(p, 3)
  \/ getCommentsWithReplies
  \/ Return

SpecHistogram == InitHistogram /\ [][NextHistogram]_vars

\* post detail requests of viewer 1 for post 1 over comments created under any
\* parent on the two posts, the first by user 2 and the others by user 3;
\* between requests comments and user 2 are soft-deleted
NextHide ==
  \/ \E p \in PostIds, parent \in {NULL} \cup CommentIds :
       asm.st = "idle" /\ CommentCreate(p, IF CommentIds = {} THEN 2 ELSE 3, parent)
  \/ \E c \in CommentIds : asm.st = "idle" /\ CommentDelete(c)
  \/ asm.st = "idle" /\ UserDelete(2)
  \/ GetPostWithDetails(1, 1)
  \/ getCommentsWithReplies
  \/ Return

SpecHide == InitThread /\ [][NextHide]_vars

\* ------------------------------------------------------------------- claims
\* the last operation was op
Did(op) == last.op = op

\* C1: creating a Reaction with both targets set, or neither, fails with
\* ErrInvalidData (the spec's InvalidTarget), stores no row and changes no
\* counter; every stored Reaction has exactly one of post_id, comment_id set.
BadTarget(postID, commentID) == (postID = NULL) = (commentID = NULL)

C1_ReactionTarget ==
  /\ [](\A i \in 1..Len(reactions) :
          ~BadTarget(reactions[i].post_id, reactions[i].comment_id))
  /\ []((Did("ReactionCreate") /\ BadTarget(last.args[2], last.args[3]))
          => last.err = ErrInvalidData)
  /\ [][(last'.op = "ReactionCreate" /\ BadTarget(last'.args[2], last'.args[3]))
          => /\ reactions' = reactions
             /\ posts' = posts
             /\ comments' = comments
             /\ users' = users]_vars

C1_Witness ==
  /\ Did("ReactionCreate")
  /\ last.args[2] # NULL
  /\ last.args[3] # NULL
  /\ last.err = ErrInvalidData
  /\ Len(reactions) > 0

\* C2: follow(a, a) fails with ErrInvalidData (the spec's ConstraintViolation),
\* creates no follows row and changes no follower or following counter.
C2_SelfFollow ==
  /\ []((Did("Follow") /\ last.args[1] = last.args[2]) => last.err = ErrInvalidData)
  /\ [](\A i \in FollowIds : follows[i].follower_id # follows[i].following_id)
  /\ [][(last'.op = "Follow" /\ last'.args[1] = last'.args[2])
          => follows' = follows /\ users' = users]_vars

C2_Witness ==
  /\ Did("Follow")
  /\ last.args[1] = last.args[2]
  /\ last.err = ErrInvalidData

\* C3: there is at most one live follows row per ordered pair; a follow of a
\* pair that has a live row fails with ErrDuplicatedKey (the spec's
\* ConstraintViolation) and leaves the follows table unchanged.
C3_UniqueEdge ==
  /\ [](\A a \in Users, b \in Users : Cardinality(LiveFollowRows(a, b)) <= 1)
  /\ [][\A a \in Users, b \in Users :
          (LiveFollow(a, b) /\ last'.op = "Follow" /\ last'.args = << a, b >>)
            => last'.err = ErrDuplicatedKey /\ follows' = follows]_vars

C3_Witness ==
  /\ Did("Follow")
  /\ last.err = ErrDuplicatedKey
  /\ LiveFollow(last.args[1], last.args[2])
  /\ \E i \in FollowIds : follows[i].deleted

\* C4: like_count and comment_count of a post are never negative, and an
\* unliked / uncommented applied at the value 0 leaves it 0 and returns no error.
AtZero(id, action) ==
  \/ action = ActionUnliked /\ posts[id].like_count = 0
  \/ action = ActionUncommented /\ posts[id].comment_count = 0

C5_UserCounterFloor ==
  \A u \in Users :
    /\ users[u].follower_count >= 0
    /\ users[u].following_count >= 0
    /\ users[u].post_count >= 0

\* C6: no adjustment of N concurrent callers is lost: a counter that only
\* increments have reached holds their number, and one that decrements have
\* reached too lies between the sum of the deltas (floored at 0) and the
\* number of increments.
Executed(op, id, action) ==
  Cardinality({ c \in Callers :
                  calls[c] = [ st |-> "done", op |-> op, id |-> id,
                               action |-> action ] })

Summed(value, inc, dec) ==
  /\ dec = 0 => value = inc
  /\ value <= inc
  /\ value >= inc - dec

C6_NoLostUpdate ==
  /\ \A p \in PostIds \cap {1} :
       /\ Summed(posts[p].like_count, Executed("UpdatePostCount", p, ActionLiked),
                 Executed("UpdatePostCount", p, ActionUnliked))
       /\ Summed(posts[p].comment_count,
                 Executed("UpdatePostCount", p, ActionCommented),
                 Executed("UpdatePostCount", p, ActionUncommented))
       /\ Summed(posts[p].share_count, Executed("UpdatePostCount", p, ActionShared), 0)
       /\ posts[p].like_count >= 0
       /\ posts[p].comment_count >= 0
  /\ Summed(users[1].follower_count, Executed("UpdateFollowCount", 1, ActionFollowed),
            Executed("UpdateFollowCount", 1, ActionUnfollowed))
  /\ Summed(users[1].following_count,
            Executed("UpdateFollowCount", 1, ActionFollowing),
            Executed("UpdateFollowCount", 1, ActionUnfollowing))

\* every caller has liked post 1, the requests having all been issued before
\* the first of them was executed
C6_Witness ==
  /\ \A c \in Callers :
       calls[c] = [ st |-> "done", op |-> "UpdatePostCount", id |-> 1,
                    action |-> ActionLiked ]
  /\ posts[1].like_count = NCallers

\* the post is in some page of the viewer's home timeline
HomeReturns(userID, postID) ==
  \E limit \in 1..MaxPage, offset \in 0..MaxPage :
    \E res \in GetUserFeed(userID, limit, offset) :
      \E k \in 1..Len(res) : res[k].post = postID

\* the post is in some page of the explore feed, for some time range
ExploreReturns(userID, postID) ==
  \E limit \in 1..MaxPage, offset \in 0..MaxPage, timeRange \in 0..now :
    \E k \in 1..Len(GetExploreFeed(userID, limit, offset, timeRange).items) :
      GetExploreFeed(userID, limit, offset, timeRange).items[k].post = postID

FeedRowsOf(postID) == { i \in FeedIds : feeds[i].post_id = postID }

\* C7: a post whose fan-out has completed for the follower set F enumerated at
\* publish is referenced by exactly |F| activity_feeds rows, whatever follows
\* and unfollows come later.
C7_FanoutCount ==
  \A p \in DOMAIN fanout :
    fanout[p].st = "done" => Cardinality(FeedRowsOf(p)) = Cardinality(fanout[p].F)

\* C8: a user who was not a follower of the author when a post was published
\* never gets the post from the home timeline, and once following the author
\* still gets it from the explore feed while it is live and public.
C8_HomeSnapshot(userID, postID) ==
  HomeReturns(userID, postID)
    => postID \in DOMAIN fanout /\ userID \in fanout[postID].F

C8_LateFollower ==
  \A p \in PostIds, u \in Users :
    /\ C8_HomeSnapshot(u, p)
    /\ ( /\ p \in DOMAIN fanout
         /\ u \notin fanout[p].F
         /\ LiveFollow(u, posts[p].user_id)
         /\ ~posts[p].deleted
         /\ posts[p].is_public )
         => ExploreReturns(u, p)

\* C9: there is at most one activity_feeds row per (user_id, post_id), also
\* after a fan-out that failed has been retried.
C9_OneEntryPerPair ==
  \A i \in FeedIds, j \in FeedIds :
    (feeds[i].user_id = feeds[j].user_id /\ feeds[i].post_id = feeds[j].post_id)
      => i = j

\* C10: a soft-deleted post is in no page of any viewer's home timeline and in
\* no page of the explore feed, and the step that deletes it leaves every
\* activity_feeds row as it was.
C10_DeletedPostHidden ==
  /\ [](\A p \in PostIds, u \in Users :
          posts[p].deleted => ~HomeReturns(u, p) /\ ~ExploreReturns(u, p))
  /\ [][(\E p \in PostIds : ~posts[p].deleted /\ posts'[p].deleted)
          => feeds' = feeds]_vars

\* a post was in a follower's feed and has just been deleted: its row is kept
C10_Witness ==
  /\ Did("PostDelete")
  /\ \E i \in FeedIds :
       /\ posts[feeds[i].post_id].deleted
       /\ ~feeds[i].deleted
       /\ last.args[1] = feeds[i].post_id

\* the posts of a page of feed items, in order
PostsOf(items) == [ k \in 1..Len(items) |-> items[k].post ]

\* the rows of the explore query in the order of the claim: score descending,
\* equal scores by creation time descending
RankKey(p) ==
  EngagementScore(posts[p].like_count, posts[p].comment_count, posts[p].share_count)
    * (MaxTime + 1) + posts[p].created_at

\* C11: the explore feed returns the public, live posts of the time window
\* ranked by score = 3*likes + 5*comments + 2*shares descending, equal scores
\* newest first.
C11_ExploreRanking ==
  \A limit \in 1..MaxPage, offset \in 0..MaxPage, timeRange \in 0..MaxTime :
    LET res == GetExploreFeed(3, limit, offset, timeRange)
        rows == ExploreJoin(3, timeRange)
    IN /\ res.err = NoErr
       /\ \E s \in OrderedDesc(rows, [ r \in rows |-> RankKey(r.post) ]) :
            PostsOf(res.items) = PostsOf(Page(s, limit, offset))

Eligible(p, timeRange) ==
  posts[p].is_public /\ ~posts[p].deleted /\ posts[p].created_at >= now - timeRange

FeedRowsToLivePost(userID) ==
  { i \in FeedIds :
      feeds[i].user_id = userID /\ ~feeds[i].deleted /\ ~posts[feeds[i].post_id].deleted }

\* ... and whose post has an author that is not soft-deleted
FeedRowsToLivePostAndAuthor(userID) ==
  { i \in FeedRowsToLivePost(userID) : ~users[posts[feeds[i].post_id].user_id].deleted }

\* every result of GetUserFeed(userID, limit, offset) is the items at positions
\* offset+1 .. offset+limit of an ordering of the rows by post creation time
\* descending, one item per row
IsPageOf(rows, userID, limit, offset) ==
  \A res \in GetUserFeed(userID, limit, offset) :
    /\ Len(res) <= limit
    /\ \E s \in OrderedDesc(rows, [ i \in rows |-> posts[feeds[i].post_id].created_at ]) :
         /\ Len(res) = IF Len(s) <= offset THEN 0
                         ELSE IF Len(s) - offset <= limit THEN Len(s) - offset
                         ELSE limit
         /\ \A k \in 1..Len(res) : res[k].post = feeds[s[offset + k]].post_id

\* C13, as stated: the home timeline of u is the paginated list, by post
\* creation time descending, of the posts of u's activity_feeds rows that
\* resolve to a live post.
C13_HomeTimelineAsStated ==
  \A limit \in 1..MaxPage, offset \in 0..MaxPage :
    IsPageOf(FeedRowsToLivePost(2), 2, limit, offset)

\* C13, amended: the home timeline of u is the paginated list, by post
\* creation time descending, of the posts of u's activity_feeds rows that
\* resolve to a live post whose author is not soft-deleted: a call with
\* (limit, offset) returns the items at positions offset .. offset+limit-1.
C13_HomeTimeline ==
  \A limit \in 1..MaxPage, offset \in 0..MaxPage :
    IsPageOf(FeedRowsToLivePostAndAuthor(2), 2, limit, offset)

C13_Witness ==
  /\ Cardinality(FeedRowsToLivePostAndAuthor(2)) >= 2
  /\ \E i \in FeedRowsToLivePostAndAuthor(2), j \in FeedRowsToLivePostAndAuthor(2) :
       /\ posts[feeds[i].post_id].created_at < posts[feeds[j].post_id].created_at
       /\ GetUserFeed(2, 1, 0) = { << [ post |-> feeds[j].post_id, has_user_liked |-> FALSE ] >> }
       /\ GetUserFeed(2, 1, 1) = { << [ post |-> feeds[i].post_id, has_user_liked |-> FALSE ] >> }

\* a post detail request has returned its comments
Assembled == asm.st = "done" /\ asm.err = NoErr

\* the ids and the nesting of a forest of comment nodes
RECURSIVE Shape(_)
Shape(forest) ==
  [ k \in 1..Len(forest) |->
      [ id |-> forest[k].id, replies |-> Shape(forest[k].replies) ] ]

\* the ids of the nodes of a forest, in preorder
RECURSIVE NodeSeq(_)
NodeSeq(forest) ==
  IF forest = << >> THEN << >>
  ELSE << Head(forest).id >> \o NodeSeq(Head(forest).replies) \o NodeSeq(Tail(forest))

NoDuplicates(seq) == \A i \in 1..Len(seq), j \in 1..Len(seq) : seq[i] = seq[j] => i = j

\* the live comments of the post whose parent is parentID (NULL: top level),
\* with or without those of a soft-deleted author
DirectChildren(postID, parentID, liveAuthor) ==
  { c \in CommentIds :
      /\ comments[c].post_id = postID
      /\ ~comments[c].deleted
      /\ comments[c].parent_id = parentID
      /\ liveAuthor => ~users[comments[c].user_id].deleted }

\* the forests over DirectChildren, each level by creation time ascending
RECURSIVE ExpectedForests(_, _, _)
RECURSIVE ExpectedNodes(_, _, _)
ExpectedNodes(ids, postID, liveAuthor) ==
  IF ids = << >> THEN { << >> }
  ELSE { << [ id |-> Head(ids), replies |-> r ] >> \o t :
           r \in ExpectedForests(postID, Head(ids), liveAuthor),
           t \in ExpectedNodes(Tail(ids), postID, liveAuthor) }

ExpectedForests(postID, parentID, liveAuthor) ==
  UNION { ExpectedNodes(ids, postID, liveAuthor) :
          ids \in OrderedAsc(DirectChildren(postID, parentID, liveAuthor),
                             [ c \in DirectChildren(postID, parentID, liveAuthor) |->
                                 comments[c].created_at ]) }

\* C15, as stated: the Thread Assembler returns the forest of the top-level
\* comments of the post, each node's Replies being exactly its direct
\* children, by creation time ascending at every level, to any depth.
C15_ThreadForestAsStated ==
  Assembled => Shape(asm.comments) \in ExpectedForests(asm.post, NULL, FALSE)

\* C15, amended: the Thread Assembler returns the forest of the top-level
\* comments of the post whose author is not soft-deleted, each node's Replies
\* being exactly its direct children whose author is not soft-deleted, by
\* creation time ascending at every level, to any depth.
C15_ThreadForest ==
  Assembled => Shape(asm.comments) \in ExpectedForests(asm.post, NULL, TRUE)

C15_Witness ==
  /\ Assembled
  /\ Shape(asm.comments) =
       << [ id |-> 1, replies |->
              << [ id |-> 2, replies |->
                     << [ id |-> 3, replies |-> << >> ] >> ] >> ] >>

\* the comments a request holds: scanned by an activation, or in a forest
Held ==
  { asm.stack[d].rows[k].comment : d \in 1..Len(asm.stack), k \in 1..MaxComments } \cap CommentIds

HeldIn(d) == { asm.stack[d].rows[k].comment : k \in 1..Len(asm.stack[d].rows) }

\* C16: no node at any depth of the forest assembled for post P, nor any
\* comment scanned on the way, belongs to another post, whatever the parent_id
\* of the stored comments point to.
C16_SamePost ==
  /\ \A d \in 1..Len(asm.stack) :
       /\ \A c \in HeldIn(d) : comments[c].post_id = asm.post
       /\ \A k \in 1..Len(NodeSeq(asm.stack[d].out)) :
            comments[NodeSeq(asm.stack[d].out)[k]].post_id = asm.post
  /\ \A k \in 1..Len(NodeSeq(asm.comments)) :
       comments[NodeSeq(asm.comments)[k]].post_id = asm.post

C16_Witness ==
  /\ Assembled
  /\ \E c \in CommentIds, k \in 1..Len(NodeSeq(asm.comments)) :
       /\ comments[c].post_id # asm.post
       /\ comments[c].parent_id = NodeSeq(asm.comments)[k]

CommentsOf(postID) == { c \in CommentIds : comments[c].post_id = postID }

\* C17: in one request the children of a comment are fetched at most once,
\* a comment is in the forest at most once, and the fetches number at most
\* (comments of the post) + 1.
C17_NoRescan ==
  /\ NoDuplicates(asm.fetched)
  /\ NoDuplicates(NodeSeq(asm.comments))
  /\ asm.st # "idle" /\ asm.err = NoErr
       => Len(asm.fetched) <= Cardinality(CommentsOf(asm.post)) + 1

C17_Witness ==
  /\ Assembled
  /\ Len(asm.fetched) = MaxComments + 1

\* a comment whose chain of parent_id comes back to it
RECURSIVE Ancestors(_, _)
Ancestors(c, n) ==
  IF n = 0 \/ comments[c].parent_id = NULL THEN {}
  ELSE { comments[c].parent_id } \cup Ancestors(comments[c].parent_id, n - 1)

OnCycle(c) == c \in Ancestors(c, Len(comments))

\* C18: every post detail request comes to its end, whatever the stored
\* comment relation: cycles of parent_id and self-parents included.
C18_Terminates == (asm.st = "running") ~> (asm.st = "done")

C18_Witness ==
  /\ Assembled
  /\ asm.comments # << >>
  /\ \E c \in CommentsOf(asm.post) : OnCycle(c) /\ comments[c].parent_id # c

\* the viewer has a live reaction of kind like on the post / on the comment
LikesPost(userID, postID) ==
  \E r \in 1..Len(reactions) :
    /\ reactions[r].user_id = userID
    /\ reactions[r].post_id = postID
    /\ reactions[r].type = ReactionTypeLike
    /\ ~reactions[r].deleted

LikesComment(userID, commentID) ==
  \E r \in 1..Len(reactions) :
    /\ reactions[r].user_id = userID
    /\ reactions[r].comment_id = commentID
    /\ reactions[r].type = ReactionTypeLike
    /\ ~reactions[r].deleted

\* the nodes of a forest, at every depth
RECURSIVE Nodes(_)
Nodes(forest) ==
  UNION { { forest[k] } \cup Nodes(forest[k].replies) : k \in 1..Len(forest) }

\* C14: every post item of the home timeline, of the explore feed and of the
\* post detail, and every comment node of the thread, has has_user_liked true
\* exactly when the viewer has a live reaction of kind like on that post
\* (that comment).
C14_HasUserLiked ==
  /\ \A limit \in 1..MaxPage, offset \in 0..MaxPage :
       /\ \A res \in GetUserFeed(3, limit, offset) :
            \A k \in 1..Len(res) : res[k].has_user_liked <=> LikesPost(3, res[k].post)
       /\ \A timeRange \in 0..MaxTime :
            \A k \in 1..Len(GetExploreFeed(3, limit, offset, timeRange).items) :
              GetExploreFeed(3, limit, offset, timeRange).items[k].has_user_liked
                <=> LikesPost(3, GetExploreFeed(3, limit, offset, timeRange).items[k].post)
  /\ asm.st # "idle" /\ asm.err = NoErr
       => (asm.has_user_liked <=> LikesPost(asm.viewer, asm.post))
  /\ Assembled
       => \A n \in Nodes(asm.comments) :
            n.has_user_liked <=> LikesComment(asm.viewer, n.id)

\* the pair has a follows row that is not soft-deleted
HasLiveEdge(a, b) ==
  \E i \in FollowIds :
    follows[i].follower_id = a /\ follows[i].following_id = b /\ ~follows[i].deleted

\* C19: unfollow(a, b) returns no error, leaves the pair without a live edge
\* (a is not a follower of b, is_following is false), changes nothing when
\* the pair had no live edge, and leaves the edges of every other pair as
\* they were.
C19_UnfollowIdempotent ==
  [][ \A a \in Users, b \in Users :
        last'.op = "Unfollow" /\ last'.args = << a, b >>
        => /\ last'.err = NoErr
           /\ ~HasLiveEdge(a, b)'
           /\ a \notin Followers(b)'
           /\ ~LiveFollow(a, b)'
           /\ ~HasLiveEdge(a, b) => follows' = follows
           /\ \A x \in Users, y \in Users :
                << x, y >> # << a, b >> => (HasLiveEdge(x, y)' <=> HasLiveEdge(x, y))
           /\ users' = users ]_vars

C19_Witness ==
  /\ Did("Unfollow")
  /\ last.err = NoErr
  /\ \E i \in FollowIds :
       /\ follows[i].deleted
       /\ follows[i].follower_id = last.args[1]
       /\ follows[i].following_id = last.args[2]
  /\ \E j \in FollowIds : ~follows[j].deleted /\ follows[j].following_id = last.args[2]

\* no counter adjustment is in flight
Settled == \A c \in Callers : calls[c].st # "issued"

\* C20: once the mutations in flight have settled, each user's follower_count,
\* following_count and post_count equal the numbers of live follows rows onto
\* the user, of live follows rows from the user and of live posts of the user.
C20_CountersMatch ==
  Settled
    => \A u \in DOMAIN users :
         /\ users[u].follower_count
              = Cardinality({ i \in FollowIds :
                               follows[i].following_id = u /\ ~follows[i].deleted })
         /\ users[u].following_count
              = Cardinality({ i \in FollowIds :
                               follows[i].follower_id = u /\ ~follows[i].deleted })
         /\ users[u].post_count
              = Cardinality({ p \in PostIds : posts[p].user_id = u /\ ~posts[p].deleted })

\* the counters of a user row and of a post row, by column
UserCounters == { "follower_count", "following_count", "post_count" }
PostCounters == { "like_count", "comment_count", "share_count", "view_count" }

\* every counter but (table, id, column) is in the next state what it is now
OthersUnchanged(table, id, column) ==
  /\ \A u \in DOMAIN users, f \in UserCounters :
       (table # "users" \/ u # id \/ f # column) => users'[u][f] = users[u][f]
  /\ \A p \in PostIds, f \in PostCounters :
       (table # "posts" \/ p # id \/ f # column) => posts'[p][f] = posts[p][f]

\* C21: an adjustment of one counter field of one user or post leaves every
\* other counter field of that entity, and every counter of every other user
\* and post, unchanged, in whatever order the adjustments of concurrent
\* callers are executed.
C21_Independent ==
  /\ [][ \A c \in Callers :
           (calls[c].st = "issued" /\ calls'[c].st = "done")
             => /\ calls[c].op = "UpdatePostCount"
                     => OthersUnchanged("posts", calls[c].id,
                                        PostCountColumn(calls[c].action))
                /\ calls[c].op = "UpdateFollowCount"
                     => OthersUnchanged("users", calls[c].id,
                                        FollowCountColumn(calls[c].action)) ]_vars
  /\ [][ last'.op = "UserUpdatePostCount" /\ last' # last
           => OthersUnchanged("users", last'.args[1], "post_count") ]_vars

\* two callers have adjusted different counters of post 1, a third one a
\* counter of post 2, and a counter of user 2 has been adjusted as well
C21_Witness ==
  /\ posts[1].like_count = 1
  /\ posts[1].comment_count = 1
  /\ posts[2].like_count = 1
  /\ posts[2].comment_count = 0
  /\ users[2].post_count = 1
  /\ users[1].post_count = 0
  /\ \A c \in Callers : calls[c].st = "done"

\* C22: the parent_id chain of every stored comment is acyclic and every
\* ancestor of a comment belongs to the post of the comment (a comment whose
\* creation or update would break this is rejected, so none is ever stored).
C22_ParentChain ==
  \A c \in CommentIds :
    /\ ~OnCycle(c)
    /\ \A a \in Ancestors(c, Len(comments)) : comments[a].post_id = comments[c].post_id

\* the spec's NotFound
ErrNotFound == "NotFound"

\* the last operation was a counter adjustment with an action it supports
CounterCall(l) ==
  \/ l.op = "UpdateFollowCount"
       /\ l.args[2] \in { ActionFollowed, ActionUnfollowed, ActionFollowing,
                          ActionUnfollowing }
  \/ l.op = "UserUpdatePostCount" /\ l.args[2] \in { ActionCreated, ActionDeleted }
  \/ l.op = "UpdatePostCount"
       /\ l.args[2] \in { ActionLiked, ActionUnliked, ActionCommented,
                          ActionUncommented, ActionShared }

\* its target does not exist or is soft-deleted
TargetMissing(l) ==
  IF l.op = "UpdatePostCount"
    THEN l.args[1] \notin PostIds \/ posts[l.args[1]].deleted
    ELSE l.args[1] \notin DOMAIN users \/ users[l.args[1]].deleted

\* C23: a counter adjustment whose target user or post does not exist, or is
\* soft-deleted, fails with NotFound and changes no counter.
C23_NotFound ==
  /\ []((CounterCall(last) /\ TargetMissing(last)) => last.err = ErrNotFound)
  /\ [][ (last' # last /\ CounterCall(last') /\ TargetMissing(last'))
           => users' = users /\ posts' = posts ]_vars

\* the last operation was a counter operation with an action it does not support
Unsupported(l) ==
  /\ l.op \in { "UpdateFollowCount", "UserUpdatePostCount", "UpdatePostCount" }
  /\ ~CounterCall(l)

\* C27: a counter operation called with an action it does not support returns
\* an error and leaves all counters unchanged.
C27_UnsupportedAction ==
  /\ [](Unsupported(last) => last.err # NoErr)
  /\ [][ (last' # last /\ Unsupported(last')) => users' = users /\ posts' = posts ]_vars

\* the reaction kinds, by name
Kinds == { "like", "love", "haha", "wow", "sad", "angry" }

\* the live reactions of kind k whose target is the post
LiveReactionsOfKind(postID, k) ==
  { r \in 1..Len(reactions) :
      /\ reactions[r].post_id = postID
      /\ ~reactions[r].deleted
      /\ reactions[r].type = StringToReactionType(k) }

\* C24: the ReactionSummary of a post detail holds, for every kind k, the
\* number of live reactions of kind k whose target is the post, a kind with
\* none being absent; reactions on comments and on other posts are not counted.
C24_Histogram ==
  (asm.st # "idle" /\ asm.err = NoErr)
    => \A k \in Kinds :
         IF LiveReactionsOfKind(asm.post, k) = {}
           THEN k \notin DOMAIN asm.reaction_summary
           ELSE /\ k \in DOMAIN asm.reaction_summary
                /\ asm.reaction_summary[k] = Cardinality(LiveReactionsOfKind(asm.post, k))

\* the detail of a post with one live like, a soft-deleted like, and a live
\* like of the same user on another target
C24_Witness ==
  /\ Assembled
  /\ asm.reaction_summary = [ k \in { "like" } |-> 1 ]
  /\ \E r \in 1..Len(reactions) :
       /\ reactions[r].post_id = asm.post
       /\ reactions[r].type = ReactionTypeLike
       /\ reactions[r].deleted
  /\ \E r \in 1..Len(reactions) :
       /\ reactions[r].post_id # asm.post
       /\ reactions[r].type = ReactionTypeLike
       /\ ~reactions[r].deleted

\* C25: follow(a, b) fails only for a = b or for a pair that has a live edge:
\* a follow of a pair of distinct users without a live edge (after an
\* unfollow too) succeeds and leaves exactly one live edge (a, b).
C25_Refollow ==
  [][ \A a \in Users, b \in Users :
        (last'.op = "Follow" /\ last'.args = << a, b >> /\ a # b /\ ~HasLiveEdge(a, b))
          => /\ last'.err = NoErr
             /\ Cardinality(LiveFollowRows(a, b))' = 1 ]_vars

\* C26: no page of a home timeline or of the explore feed holds the same post
\* twice, and no thread holds the same comment twice, whatever reactions the
\* viewer has on the targets.
C26_NoDuplicates ==
  /\ \A u \in Users, limit \in 1..MaxPage, offset \in 0..MaxPage :
       /\ \A res \in GetUserFeed(u, limit, offset) : NoDuplicates(PostsOf(res))
       /\ \A timeRange \in 0..MaxTime :
            NoDuplicates(PostsOf(GetExploreFeed(u, limit, offset, timeRange).items))
  /\ NoDuplicates(NodeSeq(asm.comments))

\* the comment is a live comment of the post with a live author, and so is
\* every comment of its parent chain, which ends at a top-level comment
RECURSIVE Visible(_, _, _)
Visible(postID, c, n) ==
  /\ comments[c].post_id = postID
  /\ ~comments[c].deleted
  /\ ~users[comments[c].user_id].deleted
  /\ \/ comments[c].parent_id = NULL
     \/ n > 0 /\ Visible(postID, comments[c].parent_id, n - 1)

\* C28: the thread of post P holds a comment exactly when it and every
\* ancestor up to a top-level comment are live comments of P with a live
\* author: a soft-deleted comment (or author) hides the comment with its whole
\* reply subtree, and live replies below it are not returned.
C28_HiddenSubtree ==
  Assembled
    => { NodeSeq(asm.comments)[k] : k \in 1..Len(NodeSeq(asm.comments)) }
         = { c \in CommentIds : Visible(asm.post, c, Len(comments)) }

\* a thread that holds a comment and leaves out a live reply, of a live
\* author, to a soft-deleted comment of the post
C28_Witness ==
  /\ Assembled
  /\ asm.comments # << >>
  /\ \E c \in CommentIds :
       /\ comments[c].post_id = asm.post
       /\ ~comments[c].deleted
       /\ ~users[comments[c].user_id].deleted
       /\ comments[c].parent_id # NULL
       /\ comments[comments[c].parent_id].deleted
       /\ comments[comments[c].parent_id].post_id = asm.post
       /\ \A k \in 1..Len(NodeSeq(asm.comments)) : NodeSeq(asm.comments)[k] # c
====
